---------------------------- MODULE Spec2Model ----------------------------
(***************************************************************************)
(* Model of libnl/attr.py (netlink attribute codec, policy validation and  *)
(* table building) and of libnl/genl/ctrl.py (generic netlink family       *)
(* resolution: probe_response, genl_ctrl_probe_by_name, genl_ctrl_resolve).*)
(***************************************************************************)
EXTENDS Integers, Sequences, FiniteSets, TLC

(***************************************************************************)
(* Bounds of the model.                                                    *)
(***************************************************************************)
\* Python integers are unbounded; they are modelled as little-endian
\* sequences of base-256 digits of at most MaxLimbs digits.
MaxLimbs == 9
\* Longest attribute list handed to nla_parse / nla_for_each_attr.
MaxStream == 3
\* Longest payload (bytes) of a record handed to validate_nla.
MaxPayload == 9
\* Most messages the transport delivers during one probe.
MaxMsgs == 2

(***************************************************************************)
(* Program constants.                                                      *)
(***************************************************************************)
NLA_UNSPEC == 0
NLA_U8 == 1
NLA_U16 == 2
NLA_U32 == 3
NLA_U64 == 4
NLA_STRING == 5
NLA_FLAG == 6
NLA_MSECS == 7
NLA_NESTED == 8
NLA_TYPE_MAX == NLA_NESTED

\* libnl.linux_private.netlink (not among the sources): header size, the
\* alignment unit and the two flag bits of the 16-bit type field.
NLA_HDRLEN == 4
NLA_ALIGNTO == 4
NLA_F_NESTED == 32768
NLA_F_NET_BYTEORDER == 16384
\* libnl.errno_ (not among the sources): the error codes named by attr.py
\* and ctrl.py; only their being distinct and nonzero matters.
NLE_INVAL == 7
NLE_RANGE == 8
NLE_OBJ_NOTFOUND == 12
NLE_MSG_TOOSHORT == 21
\* libnl.linux_private.genetlink (not among the sources).
CTRL_ATTR_UNSPEC == 0
CTRL_ATTR_FAMILY_ID == 1
CTRL_ATTR_FAMILY_NAME == 2
CTRL_ATTR_VERSION == 3
CTRL_ATTR_HDRSIZE == 4
CTRL_ATTR_MAXATTR == 5
CTRL_ATTR_OPS == 6
CTRL_ATTR_MCAST_GROUPS == 7
CTRL_ATTR_MAX == CTRL_ATTR_MCAST_GROUPS
GENL_NAMSIZ == 16
\* libnl.handlers (not among the sources): callback return codes.
NL_OK == 0
NL_SKIP == 1
NL_STOP == 2

(***************************************************************************)
(* Python values.                                                          *)
(***************************************************************************)
\* None, and the exceptions the modelled code can raise.
None == "None"
KeyError == "KeyError"
IndexError == "IndexError"
ValueError == "ValueError"
BUG == "BUG"
NotImplementedError == "NotImplementedError"

\* What a call produces: a returned value or a raised exception.
Return(v) == [exc |-> None, value |-> v]
Raise(e) == [exc |-> e, value |-> None]

Min(a, b) == IF a < b THEN a ELSE b

\* Sample base-256 digits.
Limb == {0, 1, 255}

\* All sequences over S of length at most n.
SeqUpTo(S, n) == UNION {[1..k -> S] : k \in 0..n}

\* A non-negative Python int: digits, least significant first, no leading
\* (most significant) zero digit.
IsCanon(v) == Len(v) = 0 \/ v[Len(v)] # 0
IntSet == {v \in SeqUpTo(Limb, MaxLimbs) : IsCanon(v)}

RECURSIVE Canon(_)
Canon(b) == IF Len(b) = 0 \/ b[Len(b)] # 0 THEN b ELSE Canon(SubSeq(b, 1, Len(b) - 1))

\* The number a digit sequence of at most three digits denotes.
RECURSIVE ValueOf(_)
ValueOf(v) == IF Len(v) = 0 THEN 0 ELSE v[1] + 256 * ValueOf(Tail(v))

Widths == {8, 16, 32, 64}


(***************************************************************************)
(* State.                                                                  *)
(***************************************************************************)
VARIABLES
    \* attr.py, integer codec: the attribute list of the message being
    \* built (msg.nm_nlh.payload), the argument of the last nla_put_u*
    \* call and the result of the last nla_get_u* call.
    msg, putArg, got,
    \* attr.py, validation and table building: the arguments of the last
    \* call (head, maxtype, policy, or the single record), the caller's
    \* table tb, the value returned or exception raised, the discard
    \* diagnostics logged, the records validate_nla was called on, the
    \* policy keys looked up and the records the iteration yielded.
    call, tb, ret, log, validated, lookups, yielded,
    \* ctrl.py, one genl_ctrl_probe_by_name / genl_ctrl_resolve call.
    \* position in the call, the caller's socket (its callback set), the
    \* probe's callback set, the family descriptor, the message delivered
    \* last, whether an acknowledgment was observed, the transport
    \* operations invoked, what became of each delivered message, and what
    \* the call produced.
    pc, sk, cb, family, last, ackSeen, ops, handled, outcome

codecVars == <<msg, putArg, got>>
attrVars == <<call, tb, ret, log, validated, lookups, yielded>>
probeVars == <<pc, sk, cb, family, last, ackSeen, ops, handled, outcome>>
vars == <<msg, putArg, got, call, tb, ret, log, validated, lookups, yielded,
          pc, sk, cb, family, last, ackSeen, ops, handled, outcome>>

(***************************************************************************)
(* attr.py: records and the integer codec.                                 *)
(***************************************************************************)
\* Python objects that serve as values and payloads: an int (digits), a
\* bytearray or bytes object (bytes) or a ctypes.c_uint<w> instance (its
\* w/8 bytes).
PyInt(v) == [kind |-> "int", bytes |-> v]
ByteArray(b) == [kind |-> "bytearray", bytes |-> b]
Bytes(b) == [kind |-> "bytes", bytes |-> b]
CName(w) == CASE w = 8 -> "c_uint8" [] w = 16 -> "c_uint16"
              [] w = 32 -> "c_uint32" [] w = 64 -> "c_uint64"

\* ctypes.c_uint<w>(value) for a Python int: no overflow checking is done,
\* the low w/8 bytes are kept.
c_uint(w, v) ==
    [kind |-> CName(w),
     bytes |-> [i \in 1..(w \div 8) |-> IF i <= Len(v) THEN v[i] ELSE 0]]

\* .value of a ctypes unsigned integer: the Python int its bytes denote.
c_value(bytes) == Canon(bytes)

\* nlattr(nla_type=..., payload=...): nla_len covers header and payload.
nlattr(type, data) ==
    [cls |-> "nlattr", nla_type |-> type,
     nla_len |-> NLA_HDRLEN + Len(data.bytes), payload |-> data]

\* nla_put: append the new record to the message's attribute list.
nla_put(m, attrtype, data) == Append(m, nlattr(attrtype, data))

nla_put_u8(m, attrtype, value) ==
    nla_put(m, attrtype, IF value.kind = "c_uint8" THEN value ELSE c_uint(8, value.bytes))

nla_put_u16(m, attrtype, value) ==
    nla_put(m, attrtype, IF value.kind = "c_uint16" THEN value ELSE c_uint(16, value.bytes))

nla_put_u32(m, attrtype, value) ==
    nla_put(m, attrtype, IF value.kind = "c_uint32" THEN value ELSE c_uint(32, value.bytes))

nla_put_u64(m, attrtype, value) ==
    nla_put(m, attrtype, IF value.kind = "c_uint64" THEN value ELSE c_uint(64, value.bytes))

\* ctypes.c_uint<w>.from_buffer(obj).value: reads exactly w/8 bytes of the
\* object's buffer and raises ValueError when the buffer is smaller.
from_buffer(w, data) ==
    IF Len(data.bytes) < w \div 8 THEN Raise(ValueError)
    ELSE Return(c_value(SubSeq(data.bytes, 1, w \div 8)))

nla_get_u8(nla) ==
    IF nla.payload.kind = "c_uint8" THEN Return(c_value(nla.payload.bytes))
    ELSE from_buffer(8, nla.payload)

nla_get_u16(nla) ==
    IF nla.payload.kind = "c_uint16" THEN Return(c_value(nla.payload.bytes))
    ELSE from_buffer(16, nla.payload)

\* A slip that reads a 32 bit attribute with the 16 bit accessor.
nla_get_u32_narrow(nla) == nla_get_u16(nla)

nla_get_u32(nla) ==
    IF nla.payload.kind = "c_uint32" THEN Return(c_value(nla.payload.bytes))
    ELSE from_buffer(32, nla.payload)

nla_get_u64(nla) ==
    IF nla.payload.kind = "c_uint64" THEN Return(c_value(nla.payload.bytes))
    ELSE from_buffer(64, nla.payload)

PutU(w, m, attrtype, value) ==
    CASE w = 8 -> nla_put_u8(m, attrtype, value)
      [] w = 16 -> nla_put_u16(m, attrtype, value)
      [] w = 32 -> nla_put_u32(m, attrtype, value)
      [] w = 64 -> nla_put_u64(m, attrtype, value)

GetU(w, nla) ==
    CASE w = 8 -> nla_get_u8(nla)
      [] w = 16 -> nla_get_u16(nla)
      [] w = 32 -> nla_get_u32(nla)
      [] w = 64 -> nla_get_u64(nla)

(***************************************************************************)
(* attr.py: accessors, stream iteration, validation and table building.    *)
(* A reference to the object head[i] is modelled by its position i.        *)
(***************************************************************************)
\* The low 14 bits of the type field (NLA_TYPE_MASK clears the flag bits).
NLA_TYPE_MASK == NLA_F_NET_BYTEORDER - 1

nla_type(nla) == nla.nla_type % (NLA_TYPE_MASK + 1)

nla_data(nla) == nla.payload.bytes

nla_len(nla) == nla.nla_len - NLA_HDRLEN

NLA_ALIGN(len) == ((len + NLA_ALIGNTO - 1) \div NLA_ALIGNTO) * NLA_ALIGNTO

nla_ok(nla, remaining) ==
    /\ remaining >= NLA_HDRLEN
    /\ NLA_HDRLEN <= nla.nla_len
    /\ nla.nla_len <= remaining

\* nla_next: the bytes remaining after stepping over the record.
nla_next(nla, remaining) == remaining - NLA_ALIGN(nla.nla_len)

nla_attr_minlen(t) ==
    CASE t = NLA_U8 -> 1
      [] t = NLA_U16 -> 2
      [] t = NLA_U32 -> 4
      [] t = NLA_U64 -> 8
      [] t = NLA_STRING -> 1
      [] t = NLA_FLAG -> 0
      [] OTHER -> 0

nla_policy(type_, minlen, maxlen) == [type_ |-> type_, minlen |-> minlen, maxlen |-> maxlen]

\* data[i] of a Python sequence: negative indices count from the end.
PyIndex(data, i) ==
    IF i >= Len(data) \/ i < 0 - Len(data) THEN Raise(IndexError)
    ELSE Return(data[(IF i < 0 THEN i + Len(data) ELSE i) + 1])

\* The checks of validate_nla that follow the policy lookup.
validate_lengths(nla, pt, minlen) ==
    IF nla_len(nla) < minlen THEN Return(0 - NLE_RANGE)
    ELSE IF pt.maxlen # 0 /\ nla_len(nla) > pt.maxlen THEN Return(0 - NLE_RANGE)
    ELSE IF pt.type_ = NLA_STRING
         THEN LET final == PyIndex(nla_data(nla), nla_len(nla) - 1) IN
              IF final.exc # None THEN final
              ELSE IF final.value # 0 THEN Return(0 - NLE_INVAL)
              ELSE Return(0)
    ELSE Return(0)

\* A slip that drops the per-type default minimum lengths.
validate_nla_nodefault(nla, maxtype, policy) ==
    LET type_ == nla_type(nla) IN
    IF type_ < 0 \/ type_ > maxtype THEN Return(0)
    ELSE IF type_ \notin DOMAIN policy THEN Raise(KeyError)
    ELSE LET pt == policy[type_] IN
         IF pt.type_ > NLA_TYPE_MAX THEN Raise(BUG)
         ELSE validate_lengths(nla, pt, pt.minlen)

\* A slip that validates records whatever their type.
validate_nla_nomax(nla, maxtype, policy) ==
    LET type_ == nla_type(nla) IN
    IF type_ \notin DOMAIN policy THEN Raise(KeyError)
    ELSE LET pt == policy[type_] IN
         IF pt.type_ > NLA_TYPE_MAX THEN Raise(BUG)
         ELSE validate_lengths(nla, pt,
                  IF pt.minlen # 0 THEN pt.minlen
                  ELSE IF pt.type_ # NLA_UNSPEC THEN nla_attr_minlen(pt.type_)
                  ELSE 0)

validate_nla(nla, maxtype, policy) ==
    LET type_ == nla_type(nla) IN
    IF type_ < 0 \/ type_ > maxtype THEN Return(0)
    ELSE IF type_ \notin DOMAIN policy THEN Raise(KeyError)
    ELSE LET pt == policy[type_] IN
         IF pt.type_ > NLA_TYPE_MAX THEN Raise(BUG)
         ELSE validate_lengths(nla, pt,
                  IF pt.minlen # 0 THEN pt.minlen
                  ELSE IF pt.type_ # NLA_UNSPEC THEN nla_attr_minlen(pt.type_)
                  ELSE 0)

\* Whether validate_nla reads policy[type_] for this record.
validate_nla_lookup(nla, maxtype) == ~(nla_type(nla) < 0 \/ nla_type(nla) > maxtype)

isinstance_nlattr(a) == a.cls = "nlattr"

\* nla_for_each_attr: the nlattr instances of the list, in order.
RECURSIVE nla_for_each_attr_from(_, _)
nla_for_each_attr_from(head, i) ==
    IF i > Len(head) THEN <<>>
    ELSE IF isinstance_nlattr(head[i]) THEN <<i>> \o nla_for_each_attr_from(head, i + 1)
    ELSE nla_for_each_attr_from(head, i + 1)

nla_for_each_attr(head) == nla_for_each_attr_from(head, 1)

\* A slip that stores the record before it is validated.
nla_parse_body_store_first(st, head, i, maxtype, policy) ==
    LET nla == head[i]
        type_ == nla_type(nla)
        checks == DOMAIN policy # {}
        err == IF checks THEN validate_nla(nla, maxtype, policy) ELSE Return(0)
        checked == IF checks THEN Append(st.validated, i) ELSE st.validated
        stored == [st EXCEPT !.validated = checked,
                             !.log = IF type_ \in DOMAIN st.tb THEN Append(st.log, type_)
                                     ELSE st.log,
                             !.tb = [t \in DOMAIN st.tb \cup {type_} |->
                                        IF t = type_ THEN i ELSE st.tb[t]]]
    IN  IF type_ > maxtype THEN st
        ELSE IF err.exc # None \/ err.value < 0
             THEN [stored EXCEPT !.done = TRUE, !.ret = err]
        ELSE stored

\* A slip that keeps the first record of a type and ignores later ones.
nla_parse_body_keep_first(st, head, i, maxtype, policy) ==
    LET nla == head[i]
        type_ == nla_type(nla)
        checks == DOMAIN policy # {}
        err == IF checks THEN validate_nla(nla, maxtype, policy) ELSE Return(0)
        checked == IF checks THEN Append(st.validated, i) ELSE st.validated
    IN  IF type_ > maxtype THEN st
        ELSE IF err.exc # None \/ err.value < 0
             THEN [st EXCEPT !.validated = checked, !.done = TRUE, !.ret = err]
        ELSE [st EXCEPT !.validated = checked,
                        !.log = IF type_ \in DOMAIN st.tb THEN Append(st.log, type_) ELSE st.log,
                        !.tb = [t \in DOMAIN st.tb \cup {type_} |->
                                   IF t \in DOMAIN st.tb THEN st.tb[t] ELSE i]]

\* One pass of the loop body of nla_parse over the record head[i]; st holds
\* the table, the diagnostics logged, the records validate_nla was called
\* on, and whether and what the function has returned or raised.
nla_parse_body(st, head, i, maxtype, policy) ==
    LET nla == head[i]
        type_ == nla_type(nla)
        checks == DOMAIN policy # {}
        err == IF checks THEN validate_nla(nla, maxtype, policy) ELSE Return(0)
        checked == IF checks THEN Append(st.validated, i) ELSE st.validated
    IN  IF type_ > maxtype THEN st
        ELSE IF err.exc # None \/ err.value < 0
             THEN [st EXCEPT !.validated = checked, !.done = TRUE, !.ret = err]
        ELSE [st EXCEPT !.validated = checked,
                        !.log = IF type_ \in DOMAIN st.tb THEN Append(st.log, type_) ELSE st.log,
                        !.tb = [t \in DOMAIN st.tb \cup {type_} |->
                                   IF t = type_ THEN i ELSE st.tb[t]]]

RECURSIVE nla_parse_loop(_, _, _, _, _)
nla_parse_loop(st, head, refs, maxtype, policy) ==
    IF st.done THEN st
    ELSE IF refs = <<>> THEN [st EXCEPT !.done = TRUE, !.ret = Return(0)]
    ELSE nla_parse_loop(nla_parse_body(st, head, Head(refs), maxtype, policy),
                        head, Tail(refs), maxtype, policy)

\* nla_parse(tb, maxtype, head, policy): tb is the caller's dictionary and is
\* updated in place; the result holds it as the call leaves it.  A policy
\* that is None or empty is the empty function.
nla_parse(tbl, maxtype, head, policy) ==
    nla_parse_loop([tb |-> tbl, log |-> <<>>, validated |-> <<>>,
                    done |-> FALSE, ret |-> Return(0)],
                   head, nla_for_each_attr(head), maxtype, policy)

(***************************************************************************)
(* Inputs of the attr.py operations.                                       *)
(***************************************************************************)
EmptyDict == [t \in {} |-> 0]

\* A record as received: the declared length need not match the payload.
Received(type, declared, bytes) ==
    [cls |-> "nlattr", nla_type |-> type, nla_len |-> declared, payload |-> ByteArray(bytes)]

\* The generic netlink header object that precedes the attributes in a
\* message's payload list.
GenlHdr == [cls |-> "genlmsghdr"]

Zeros(n) == [i \in 1..n |-> 0]

\* Attribute lists handed to nla_parse and nla_for_each_attr.
ParseItems ==
    {GenlHdr}
    \cup {nlattr(t, ByteArray(b)) : t \in {1, 2, 3}, b \in {<<1>>, <<1, 0>>}}
    \cup {nlattr(NLA_F_NESTED + 2, ByteArray(<<0>>))}
    \cup {Received(1, 2, <<1>>), Received(2, 12, <<1, 0>>)}
ParseHeads == SeqUpTo(ParseItems, MaxStream)
ParseEntries == {nla_policy(NLA_U8, 0, 0), nla_policy(NLA_U16, 0, 0), nla_policy(NLA_STRING, 0, 0)}
ParsePolicies == {EmptyDict} \cup UNION {[D -> ParseEntries] : D \in {{1}, {1, 2}}}
ParseMaxTypes == {1, 2}

\* Records and policy tables handed to validate_nla directly.
ValidatePayloads ==
    {<<>>} \cup {Zeros(n - 1) \o <<lastbyte>> : n \in 1..MaxPayload, lastbyte \in {0, 1}}
ValidateRecs == {nlattr(t, ByteArray(b)) : t \in {1, 2, NLA_F_NESTED + 1}, b \in ValidatePayloads}
ValidateEntries ==
    {nla_policy(ty, mn, mx) : ty \in 0..(NLA_TYPE_MAX + 1), mn \in {0, 1, 5}, mx \in {0, 2, 8}}
ValidatePolicies == UNION {[{t} -> ValidateEntries] : t \in {1, 2}}

IdleCall == [op |-> "idle", head |-> <<>>, maxtype |-> 0, policy |-> EmptyDict]
IdlePut == [w |-> 0, v |-> <<>>, wrapped |-> FALSE]
IdleGot == [w |-> 0, result |-> Return(<<>>)]

\* No operation has been called yet.  A behaviour follows one call
\* sequence: an integer round trip, one attr.py call, or one resolution.
Fresh == msg = <<>> /\ call.op = "idle" /\ pc = "idle"

(***************************************************************************)
(* Operations of attr.py as actions.                                       *)
(***************************************************************************)
\* nlmsg_alloc followed by one nla_put_u<w>(msg, attrtype, value); value is
\* a Python int or, when wrapped, the c_uint<w> instance made from it.
NlaPutU ==
    /\ Fresh
    /\ \E w \in Widths, v \in IntSet, wrapped \in BOOLEAN :
          /\ msg' = PutU(w, msg, CTRL_ATTR_FAMILY_ID,
                         IF wrapped THEN c_uint(w, v) ELSE PyInt(v))
          /\ putArg' = [w |-> w, v |-> v, wrapped |-> wrapped]
    /\ UNCHANGED <<got, attrVars, probeVars>>

\* nla_get_u<w>(nla) on the record just written.
NlaGetU ==
    /\ putArg.w # 0
    /\ got.w = 0
    /\ \E w \in Widths : got' = [w |-> w, result |-> GetU(w, msg[Len(msg)])]
    /\ UNCHANGED <<msg, putArg, attrVars, probeVars>>

\* nla_parse(tb, maxtype, head, policy) with a freshly created dictionary.
NlaParse ==
    /\ Fresh
    /\ \E head \in ParseHeads, maxtype \in ParseMaxTypes, policy \in ParsePolicies :
          LET r == nla_parse(EmptyDict, maxtype, head, policy) IN
          /\ call' = [op |-> "nla_parse", head |-> head, maxtype |-> maxtype, policy |-> policy]
          /\ tb' = r.tb
          /\ ret' = r.ret
          /\ log' = r.log
          /\ validated' = r.validated
          /\ lookups' = {nla_type(head[r.validated[k]]) : k \in 1..Len(r.validated)}
    /\ UNCHANGED <<yielded, codecVars, probeVars>>

\* list(nla_for_each_attr(head)).
NlaForEachAttr ==
    /\ Fresh
    /\ \E head \in ParseHeads :
          /\ call' = [op |-> "nla_for_each_attr", head |-> head, maxtype |-> 0,
                      policy |-> EmptyDict]
          /\ yielded' = nla_for_each_attr(head)
    /\ UNCHANGED <<tb, ret, log, validated, lookups, codecVars, probeVars>>

\* validate_nla(nla, maxtype, policy) on one record.
ValidateNla ==
    /\ Fresh
    /\ \E nla \in ValidateRecs, maxtype \in ParseMaxTypes, policy \in ValidatePolicies :
          /\ call' = [op |-> "validate_nla", head |-> <<nla>>, maxtype |-> maxtype,
                      policy |-> policy]
          /\ ret' = validate_nla(nla, maxtype, policy)
          /\ lookups' = IF validate_nla_lookup(nla, maxtype) THEN {nla_type(nla)} ELSE {}
    /\ UNCHANGED <<tb, log, validated, yielded, codecVars, probeVars>>

(***************************************************************************)
(* ctrl.py: the family resolution protocol.                                *)
(***************************************************************************)
nla_put_string(m, attrtype, value) ==
    nla_put(m, attrtype,
            Bytes(IF Len(value) > 0 /\ value[Len(value)] = 0 THEN value
                      ELSE value \o <<0>>))

ctrl_policy ==
    [t \in CTRL_ATTR_FAMILY_ID..CTRL_ATTR_MCAST_GROUPS |->
        CASE t = CTRL_ATTR_FAMILY_ID -> nla_policy(NLA_U16, 0, 0)
          [] t = CTRL_ATTR_FAMILY_NAME -> nla_policy(NLA_STRING, 0, GENL_NAMSIZ)
          [] t = CTRL_ATTR_VERSION -> nla_policy(NLA_U32, 0, 0)
          [] t = CTRL_ATTR_HDRSIZE -> nla_policy(NLA_U32, 0, 0)
          [] t = CTRL_ATTR_MAXATTR -> nla_policy(NLA_U32, 0, 0)
          [] t = CTRL_ATTR_OPS -> nla_policy(NLA_NESTED, 0, 0)
          [] t = CTRL_ATTR_MCAST_GROUPS -> nla_policy(NLA_NESTED, 0, 0)]

\* genl_family_alloc, genl_family_set_name, genl_family_set_id,
\* genl_family_get_id (libnl.genl.family): the descriptor and its fields.
genl_family_alloc == [name |-> <<>>, id |-> 0]
genl_family_set_name(fam, name) == [fam EXCEPT !.name = name]
genl_family_set_id(fam, id) == [fam EXCEPT !.id = id]
genl_family_get_id(fam) == fam.id

\* nl_cb_clone, nl_cb_set (libnl.handlers): a callback set maps each kind of
\* event to its handler; a clone is an independent copy.
nl_cb_clone(orig) == orig
nl_cb_set(cbs, kind, func) == [cbs EXCEPT ![kind] = func]

\* genlmsg_parse (libnl.genl.genl): checks the generic netlink header, then
\* builds the table from the message's attributes with nla_parse.
genlmsg_parse(m, tbl, maxtype, policy) ==
    IF ~m.hdr_ok
    THEN [tb |-> tbl, log |-> <<>>, validated |-> <<>>, done |-> TRUE,
          ret |-> Return(0 - NLE_MSG_TOOSHORT)]
    ELSE nla_parse(tbl, maxtype, m.attrs, policy)

\* The truth value of an nlattr instance: an object is true.
truth(nla) == TRUE

parse_mcast_grps(fam, grp_attr) == Raise(NotImplementedError)

\* What the handler produces: the value returned or exception raised, and
\* the descriptor as the handler leaves it.
Handled(exc, value, fam) == [exc |-> exc, value |-> value, arg |-> fam]

\* The tail of probe_response, from the multicast group test on.
probe_response_mcast(m, tbl, arg) ==
    IF CTRL_ATTR_MCAST_GROUPS \notin DOMAIN tbl THEN Handled(KeyError, NL_OK, arg)
    ELSE IF truth(m.attrs[tbl[CTRL_ATTR_MCAST_GROUPS]])
         THEN LET r == parse_mcast_grps(arg, m.attrs[tbl[CTRL_ATTR_MCAST_GROUPS]]) IN
              IF r.exc # None THEN Handled(r.exc, NL_OK, arg)
              ELSE IF r.value < 0 THEN Handled(None, NL_SKIP, arg)
              ELSE Handled(None, NL_STOP, arg)
    ELSE Handled(None, NL_STOP, arg)

probe_response(m, arg) ==
    LET p == genlmsg_parse(m, EmptyDict, CTRL_ATTR_MAX, ctrl_policy) IN
    IF p.ret.exc # None THEN Handled(p.ret.exc, NL_OK, arg)
    ELSE IF p.ret.value # 0 THEN Handled(None, NL_SKIP, arg)
    ELSE IF CTRL_ATTR_FAMILY_ID \notin DOMAIN p.tb THEN Handled(KeyError, NL_OK, arg)
    ELSE IF truth(m.attrs[p.tb[CTRL_ATTR_FAMILY_ID]])
         THEN LET id == nla_get_u16(m.attrs[p.tb[CTRL_ATTR_FAMILY_ID]]) IN
              IF id.exc # None THEN Handled(id.exc, NL_OK, arg)
              ELSE probe_response_mcast(m, p.tb, genl_family_set_id(arg, ValueOf(id.value)))
    ELSE probe_response_mcast(m, p.tb, arg)

\* A slip that registers the handler on the socket's own callback set.
probe_callbacks_shared(orig) ==
    [orig |-> nl_cb_set(orig, "NL_CB_VALID", "probe_response"),
     cb |-> nl_cb_set(orig, "NL_CB_VALID", "probe_response")]

\* genl_ctrl_probe_by_name, callback handling: the socket's callback set
\* and the probe's own set after the handler is registered.
probe_callbacks(orig) ==
    [orig |-> orig,
     cb |-> nl_cb_set(nl_cb_clone(orig), "NL_CB_VALID", "probe_response")]

\* The end of genl_ctrl_probe_by_name and genl_ctrl_resolve once the three
\* transport operations have succeeded.
probe_result(fam) ==
    IF genl_family_get_id(fam) # 0
    THEN [exc |-> None, family |-> "family", resolve |-> genl_family_get_id(fam),
          failed |-> "none"]
    ELSE [exc |-> None, family |-> None, resolve |-> 0 - NLE_OBJ_NOTFOUND,
          failed |-> "none"]

\* A transport operation returned a negative value: the probe returns None.
probe_failed(op) ==
    [exc |-> None, family |-> None, resolve |-> 0 - NLE_OBJ_NOTFOUND, failed |-> op]

\* An exception leaves the handler and, uncaught, both functions.
probe_raised(exc) == [exc |-> exc, family |-> None, resolve |-> 0, failed |-> "none"]

(***************************************************************************)
(* Messages the transport can deliver.                                     *)
(***************************************************************************)
Names == {<<110, 108>>, <<119>>}
AckMsg == [kind |-> "ack", hdr_ok |-> TRUE, attrs |-> <<>>]
ErrMsg == [kind |-> "error", hdr_ok |-> TRUE, attrs |-> <<>>]
DataMsg(hdr_ok, attrs) == [kind |-> "data", hdr_ok |-> hdr_ok, attrs |-> attrs]
NoMsg == [kind |-> "none", hdr_ok |-> TRUE, attrs |-> <<>>]

Opt(type, payloads) == {<<>>} \cup {<<nlattr(type, ByteArray(b))>> : b \in payloads}

\* Replies: each attribute absent or present, in the kernel's order.
ReplyAttrs ==
    {u \o i \o n \o g \o x :
        u \in Opt(CTRL_ATTR_UNSPEC, {<<>>}),
        i \in Opt(CTRL_ATTR_FAMILY_ID, {<<16, 0>>, <<1, 1>>, <<0, 0>>, <<16>>}),
        n \in Opt(CTRL_ATTR_FAMILY_NAME, {nm \o <<0>> : nm \in Names} \cup {<<110, 108>>}),
        g \in Opt(CTRL_ATTR_MCAST_GROUPS, {<<>>}),
        x \in Opt(CTRL_ATTR_MAX + 1, {<<>>})}
Messages ==
    {AckMsg, ErrMsg, DataMsg(FALSE, <<>>)} \cup {DataMsg(TRUE, a) : a \in ReplyAttrs}

CallerCbs == [{"NL_CB_VALID", "NL_CB_ACK"} -> {"default", "caller"}]

HasType(attrs, t) == \E k \in 1..Len(attrs) : nla_type(attrs[k]) = t

\* The reply of a successful lookup of the family name: FAMILY_ID with a
\* 16 bit value and FAMILY_NAME with the NUL-terminated name, nothing else.
IsPlainReply(m, name) ==
    /\ m.kind = "data"
    /\ m.hdr_ok
    /\ Len(m.attrs) = 2
    /\ nla_type(m.attrs[1]) = CTRL_ATTR_FAMILY_ID
    /\ Len(m.attrs[1].payload.bytes) = 2
    /\ m.attrs[2] = nlattr(CTRL_ATTR_FAMILY_NAME, ByteArray(name \o <<0>>))

\* What is remembered of a delivered message: its kind, whether it carries
\* FAMILY_ID, whether it is the plain reply and with which id, and what
\* became of it.
Note(m, fam, verdict) ==
    [kind |-> m.kind,
     hasId |-> HasType(m.attrs, CTRL_ATTR_FAMILY_ID),
     plain |-> IsPlainReply(m, fam.name),
     id |-> IF IsPlainReply(m, fam.name) THEN ValueOf(m.attrs[1].payload.bytes) ELSE 0,
     verdict |-> verdict]
VerdictName(h) ==
    IF h.exc # None THEN h.exc
    ELSE IF h.value = NL_STOP THEN "NL_STOP"
    ELSE IF h.value = NL_SKIP THEN "NL_SKIP"
    ELSE "NL_OK"

(***************************************************************************)
(* One genl_ctrl_resolve(sk, name) call, step by step.                     *)
(***************************************************************************)
\* genl_ctrl_probe_by_name up to the registration of the handler.
ProbeByName ==
    /\ Fresh
    /\ \E name \in Names :
          /\ family' = genl_family_set_name(genl_family_alloc, name)
          /\ msg' = nla_put_string(<<>>, CTRL_ATTR_FAMILY_NAME, name)
    /\ sk' = [sk EXCEPT !.cb = probe_callbacks(sk.cb).orig]
    /\ cb' = probe_callbacks(sk.cb).cb
    /\ pc' = "send"
    /\ UNCHANGED <<putArg, got, attrVars, last, ackSeen, ops, handled, outcome>>

\* A slip that notes the failed send but goes on to receive.
NlSendAuto_no_return ==
    /\ pc = "send"
    /\ ops' = Append(ops, "send")
    /\ \E ok \in BOOLEAN :
          IF ok THEN pc' = "recv" /\ UNCHANGED outcome
          ELSE pc' = "recv" /\ outcome' = probe_failed("send")
    /\ UNCHANGED <<codecVars, attrVars, sk, cb, family, last, ackSeen, handled>>

\* nl_send_auto(sk, msg).
NlSendAuto ==
    /\ pc = "send"
    /\ ops' = Append(ops, "send")
    /\ \E ok \in BOOLEAN :
          IF ok THEN pc' = "recv" /\ UNCHANGED outcome
          ELSE pc' = "done" /\ outcome' = probe_failed("send")
    /\ UNCHANGED <<codecVars, attrVars, sk, cb, family, last, ackSeen, handled>>

\* nl_recvmsgs(sk, cb) is entered.
NlRecvmsgs ==
    /\ pc = "recv"
    /\ ops' = Append(ops, "recv")
    /\ pc' = "receiving"
    /\ UNCHANGED <<codecVars, attrVars, sk, cb, family, last, ackSeen, handled, outcome>>

\* nl_recvmsgs delivers one message: an acknowledgment is noted, an error
\* message ends the call, a valid message goes to the handler registered
\* for valid messages on the callback set in use.
RecvDeliver ==
    /\ pc = "receiving"
    /\ Len(handled) < MaxMsgs
    /\ \E m \in Messages :
          /\ last' = m
          /\ CASE m.kind = "ack" ->
                    /\ ackSeen' = TRUE
                    /\ handled' = Append(handled, Note(m, family, "ack"))
                    /\ UNCHANGED <<pc, family, outcome>>
               [] m.kind = "error" ->
                    /\ handled' = Append(handled, Note(m, family, "error"))
                    /\ pc' = "done"
                    /\ outcome' = probe_failed("recv")
                    /\ UNCHANGED <<family, ackSeen>>
               [] m.kind = "data" /\ cb["NL_CB_VALID"] # "probe_response" ->
                    /\ handled' = Append(handled, Note(m, family, "NL_OK"))
                    /\ UNCHANGED <<pc, family, ackSeen, outcome>>
               [] m.kind = "data" /\ cb["NL_CB_VALID"] = "probe_response" ->
                    LET h == probe_response(m, family) IN
                    /\ handled' = Append(handled, Note(m, family, VerdictName(h)))
                    /\ family' = h.arg
                    /\ pc' = IF h.exc # None THEN "done"
                             ELSE IF h.value = NL_STOP THEN "ack"
                             ELSE pc
                    /\ outcome' = IF h.exc # None THEN probe_raised(h.exc) ELSE outcome
                    /\ UNCHANGED ackSeen
    /\ UNCHANGED <<codecVars, attrVars, sk, cb, ops>>

\* nl_recvmsgs returns 0 without the handler having stopped it.
RecvReturn ==
    /\ pc = "receiving"
    /\ pc' = "ack"
    /\ UNCHANGED <<codecVars, attrVars, sk, cb, family, last, ackSeen, ops, handled, outcome>>

\* wait_for_ack(sk) is entered; an acknowledgment observed earlier ends it.
WaitForAck ==
    /\ pc = "ack"
    /\ ops' = Append(ops, "ack")
    /\ IF ackSeen THEN pc' = "done" /\ outcome' = probe_result(family)
       ELSE pc' = "waiting" /\ UNCHANGED outcome
    /\ UNCHANGED <<codecVars, attrVars, sk, cb, family, last, ackSeen, handled>>

\* wait_for_ack receives one message: the acknowledgment ends the call, an
\* error message fails it, anything else is passed over.
AckDeliver ==
    /\ pc = "waiting"
    /\ Len(handled) < MaxMsgs
    /\ \E m \in Messages :
          /\ last' = m
          /\ CASE m.kind = "ack" ->
                    /\ ackSeen' = TRUE
                    /\ handled' = Append(handled, Note(m, family, "ack"))
                    /\ pc' = "done"
                    /\ outcome' = probe_result(family)
               [] m.kind = "error" ->
                    /\ handled' = Append(handled, Note(m, family, "error"))
                    /\ pc' = "done"
                    /\ outcome' = probe_failed("ack")
                    /\ UNCHANGED ackSeen
               [] m.kind = "data" ->
                    /\ handled' = Append(handled, Note(m, family, "passed"))
                    /\ UNCHANGED <<pc, ackSeen, outcome>>
    /\ UNCHANGED <<codecVars, attrVars, sk, cb, family, ops>>

(***************************************************************************)
(* Specifications.                                                         *)
(***************************************************************************)
InitCodec == msg = <<>> /\ putArg = IdlePut /\ got = IdleGot
InitAttr ==
    /\ call = IdleCall
    /\ tb = EmptyDict
    /\ ret = Return(0)
    /\ log = <<>>
    /\ validated = <<>>
    /\ lookups = {}
    /\ yielded = <<>>
InitProbe(callerCb) ==
    /\ pc = "idle"
    /\ sk = [cb |-> callerCb]
    /\ cb = [k \in {"NL_CB_VALID", "NL_CB_ACK"} |-> "default"]
    /\ family = genl_family_alloc
    /\ last = NoMsg
    /\ ackSeen = FALSE
    /\ ops = <<>>
    /\ handled = <<>>
    /\ outcome = probe_failed("none")

DefaultCb == [k \in {"NL_CB_VALID", "NL_CB_ACK"} |-> "default"]
Init == InitCodec /\ InitAttr /\ InitProbe(DefaultCb)
InitAnySocket == InitCodec /\ InitAttr /\ \E c \in CallerCbs : InitProbe(c)

\* The integer codec.
NextCodec == NlaPutU \/ NlaGetU
SpecCodec == Init /\ [][NextCodec]_vars

\* Validation, table building and iteration.
NextAttr == NlaParse \/ NlaForEachAttr \/ ValidateNla
SpecAttr == Init /\ [][NextAttr]_vars

\* Family resolution.
NextProbe ==
    \/ ProbeByName
    \/ NlSendAuto
    \/ NlRecvmsgs
    \/ RecvDeliver
    \/ RecvReturn
    \/ WaitForAck
    \/ AckDeliver
SpecProbe == InitAnySocket /\ [][NextProbe]_vars

Next == NextCodec \/ NextAttr \/ NextProbe
Spec == InitAnySocket /\ [][Next]_vars

(***************************************************************************)
(* Properties.                                                             *)
(***************************************************************************)
Range(f) == {f[x] : x \in DOMAIN f}
Finished == pc = "done"
DataNotes == {k \in 1..Len(handled) : handled[k].kind = "data"}

\* C1 (as claimed): when the send succeeds, the receive loop delivers the
\* one reply carrying FAMILY_ID = k (nonzero) and FAMILY_NAME = name and no
\* transport operation fails, the call ends with resolve returning k.
C1_ResolveReturnsId ==
    (/\ Finished
     /\ outcome.failed = "none"
     /\ Cardinality(DataNotes) = 1
     /\ \A k \in DataNotes : handled[k].plain /\ handled[k].id # 0)
    => /\ outcome.exc = None
       /\ \A k \in DataNotes : outcome.resolve = handled[k].id

\* C2 (as claimed): an exchange without transport error in which no reply
\* carries FAMILY_ID ends with resolve returning ObjectNotFoundError, and
\* with no id, other error or exception.
C2_NotFoundWithoutId ==
    (/\ Finished
     /\ outcome.failed = "none"
     /\ \A k \in 1..Len(handled) : ~handled[k].hasId)
    => /\ outcome.exc = None
       /\ outcome.family = None
       /\ outcome.resolve = 0 - NLE_OBJ_NOTFOUND

\* C3 (as claimed): once the acknowledgment and the plain reply with a
\* nonzero id have both been observed, in either order, and no transport
\* operation failed, the finished call has returned the descriptor; and a
\* descriptor is returned only if both were observed.
C3_BothOrdersAccepted ==
    /\ (/\ Finished
        /\ outcome.failed = "none"
        /\ ackSeen
        /\ \E k \in DataNotes : handled[k].plain /\ handled[k].id # 0)
       => outcome.family = "family"
    /\ (Finished /\ outcome.family = "family")
       => (ackSeen /\ \E k \in DataNotes : handled[k].hasId)

\* C4: no step of the probe, whatever its outcome, changes the callback set
\* registered on the caller's socket; the handler is on the clone only.
C4_CallerCallbacksUntouched == [][sk' = sk]_vars

\* C4 witness: a finished call whose own callback set carries the handler
\* while the caller's set still holds the caller's handler.
C4_Witness ==
    /\ Finished
    /\ cb["NL_CB_VALID"] = "probe_response"
    /\ sk.cb["NL_CB_VALID"] = "caller"

ParseFailed == call.op = "nla_parse" /\ ret.exc = None /\ ret.value < 0

\* C5 (as claimed): when nla_parse fails on a record that violates the
\* policy, no record of the stream is present in the caller's table.
C5_NoPartialTable == ParseFailed => tb = EmptyDict

\* C5 (amended): when nla_parse fails on a record that violates the policy
\* it returns that record's validation error, and the caller's table holds
\* exactly the accepted records that precede the failing one, the last of
\* each type; the failing record and the records after it are absent.
C5_TableHoldsPrecedingRecords ==
    ParseFailed =>
        LET f == validated[Len(validated)]
            before == {i \in 1..(f - 1) : /\ isinstance_nlattr(call.head[i])
                                          /\ nla_type(call.head[i]) <= call.maxtype}
        IN  /\ ret = validate_nla(call.head[f], call.maxtype, call.policy)
            /\ DOMAIN tb = {nla_type(call.head[i]) : i \in before}
            /\ \A t \in DOMAIN tb :
                  /\ tb[t] \in before
                  /\ nla_type(call.head[tb[t]]) = t
                  /\ \A i \in before : nla_type(call.head[i]) = t => i <= tb[t]

\* C5 witness: a failed parse that leaves an earlier record in the table.
C5_Witness == ParseFailed /\ tb # EmptyDict

\* The bytes of the stream from position i on: each record occupies its
\* header and payload, padded to the alignment unit.
RECURSIVE StreamBytes(_, _)
StreamBytes(head, i) ==
    IF i > Len(head) THEN 0
    ELSE (IF isinstance_nlattr(head[i])
          THEN NLA_ALIGN(NLA_HDRLEN + Len(head[i].payload.bytes)) ELSE 0)
         + StreamBytes(head, i + 1)

\* The records up to, and not including, the first one nla_ok rejects.
RECURSIVE OkPrefix(_, _)
OkPrefix(head, i) ==
    IF i > Len(head) THEN <<>>
    ELSE IF ~isinstance_nlattr(head[i]) THEN OkPrefix(head, i + 1)
    ELSE IF nla_ok(head[i], StreamBytes(head, i)) THEN <<i>> \o OkPrefix(head, i + 1)
    ELSE <<>>

\* C6 (as claimed): iterating a stream yields exactly the records up to,
\* and not including, the first record for which nla_ok fails.
C6_IterationStopsAtBadRecord ==
    call.op = "nla_for_each_attr" => yielded = OkPrefix(call.head, 1)

\* The default minimum payload length of a policy type, as documented.
DocumentedMinlen(t) ==
    CASE t = NLA_U8 -> 1 [] t = NLA_U16 -> 2 [] t = NLA_U32 -> 4 [] t = NLA_U64 -> 8
      [] t = NLA_STRING -> 1 [] OTHER -> 0

Validated == call.op = "validate_nla"
VRec == call.head[1]
VPolicy == call.policy[nla_type(VRec)]
VLen == Len(VRec.payload.bytes)

\* C7: for a record whose type is at most maxtype and a policy entry of a
\* known type, validate_nla returns RangeError iff the payload is shorter
\* than the effective minimum or longer than a nonzero maxlen; otherwise
\* InvalidError iff the policy is a string and the last byte is not NUL;
\* otherwise success.
C7_ValidateResult ==
    (/\ Validated
     /\ nla_type(VRec) <= call.maxtype
     /\ nla_type(VRec) \in DOMAIN call.policy
     /\ VPolicy.type_ <= NLA_TYPE_MAX)
    => LET effmin == IF VPolicy.minlen # 0 THEN VPolicy.minlen
                     ELSE DocumentedMinlen(VPolicy.type_)
           range == VLen < effmin \/ (VPolicy.maxlen # 0 /\ VLen > VPolicy.maxlen)
       IN  ret = IF range THEN Return(0 - NLE_RANGE)
                 ELSE IF VPolicy.type_ = NLA_STRING /\ VRec.payload.bytes[VLen] # 0
                      THEN Return(0 - NLE_INVAL)
                 ELSE Return(0)

\* C7 witness: a U32 policy without explicit lengths, a 2 byte payload and
\* RangeError as the result.
C7_Witness ==
    /\ Validated
    /\ nla_type(VRec) <= call.maxtype
    /\ nla_type(VRec) \in DOMAIN call.policy
    /\ VPolicy = nla_policy(NLA_U32, 0, 0)
    /\ VLen = 2
    /\ ret = Return(0 - NLE_RANGE)

ParseOk == call.op = "nla_parse" /\ ret = Return(0)
Occurrences(t) ==
    {i \in 1..Len(call.head) : isinstance_nlattr(call.head[i]) /\ nla_type(call.head[i]) = t}
Latest(S) == CHOOSE i \in S : \A j \in S : j <= i
Count(sq, x) == Cardinality({k \in 1..Len(sq) : sq[k] = x})

\* C8: after a successful parse every type t <= maxtype that occurs in the
\* stream is mapped to its last record, no earlier record of that type is
\* in the table, and one diagnostic was logged per overwritten record.
C8_LastWriteWins ==
    ParseOk =>
        \A t \in 0..call.maxtype :
            LET occ == Occurrences(t) IN
            IF occ = {} THEN t \notin DOMAIN tb /\ Count(log, t) = 0
            ELSE /\ t \in DOMAIN tb
                 /\ tb[t] = Latest(occ)
                 /\ Range(tb) \cap occ = {Latest(occ)}
                 /\ Count(log, t) = Cardinality(occ) - 1

\* C8 witness: a successful parse, under a policy, of a stream in which a
\* type occurs twice.
C8_Witness ==
    /\ ParseOk
    /\ DOMAIN call.policy # {}
    /\ \E t \in 0..call.maxtype : Cardinality(Occurrences(t)) > 1 /\ Count(log, t) = 1

Beyond(head, maxtype) ==
    {i \in 1..Len(head) : isinstance_nlattr(head[i]) /\ nla_type(head[i]) > maxtype}
IsKept(item) == ~isinstance_nlattr(item) \/ nla_type(item) <= call.maxtype

\* C9: a record whose type exceeds maxtype is never stored by nla_parse,
\* never validated or looked up in the policy, and has no effect on the
\* value nla_parse returns; validate_nla called on it returns success
\* without a policy lookup.
C9_UnknownTypesIgnored ==
    /\ call.op = "nla_parse" =>
          /\ \A i \in Beyond(call.head, call.maxtype) :
                i \notin Range(tb) /\ i \notin Range(validated)
          /\ \A t \in lookups : t <= call.maxtype
          /\ ret = nla_parse(EmptyDict, call.maxtype, SelectSeq(call.head, IsKept),
                             call.policy).ret
    /\ (Validated /\ nla_type(VRec) > call.maxtype) =>
          ret = Return(0) /\ lookups = {}

\* C9 witness: validate_nla succeeds on a record beyond maxtype whose
\* payload is shorter than the minimum its type's policy entry demands.
C9_Witness ==
    /\ Validated
    /\ nla_type(VRec) > call.maxtype
    /\ nla_type(VRec) \in DOMAIN call.policy
    /\ VPolicy.minlen > VLen
    /\ ret = Return(0)

\* v mod 2^w for a Python int given by its base-256 digits.
ModPow2(v, w) == Canon(SubSeq(v, 1, Min(Len(v), w \div 8)))
Pow2(w) == IF w = 8 THEN 256 ELSE 65536

\* C10: decoding at width w the record produced by encoding v at width w
\* returns v mod 2^w: v itself when it fits, the truncated value otherwise.
C10_RoundTrip ==
    (got.w # 0 /\ got.w = putArg.w) =>
        /\ got.result.exc = None
        /\ got.result.value = ModPow2(putArg.v, got.w)
        /\ Len(putArg.v) <= got.w \div 8 => got.result.value = putArg.v
        /\ (got.w \in {8, 16} /\ Len(putArg.v) <= 3) =>
              ValueOf(got.result.value) = ValueOf(putArg.v) % Pow2(got.w)

\* C10 witness: a value wider than 32 bits came back truncated from a 32
\* bit round trip.
C10_Witness ==
    /\ got.w = 32
    /\ putArg.w = 32
    /\ Len(putArg.v) > 4
    /\ got.result.exc = None
    /\ got.result.value # putArg.v

TransportOrder == <<"send", "recv", "ack">>
IsPrefix(p, q) == Len(p) <= Len(q) /\ \A k \in 1..Len(p) : p[k] = q[k]

\* C11: the transport operations of one call occur at most once each and
\* in the order send, receive, acknowledgment wait; once one of them has
\* failed it is the last one invoked, the call has ended and has returned
\* no descriptor (resolve: ObjectNotFoundError); the receive is entered
\* only after the send, the acknowledgment wait only after a receive that
\* neither failed nor was left by an exception.
C11_AtMostOneRoundTrip ==
    /\ IsPrefix(ops, TransportOrder)
    /\ outcome.failed # "none" =>
          /\ Finished
          /\ ops # <<>>
          /\ ops[Len(ops)] = outcome.failed
          /\ outcome.exc = None
          /\ outcome.family = None
          /\ outcome.resolve = 0 - NLE_OBJ_NOTFOUND
    /\ Len(ops) = 3 => outcome.exc = None /\ outcome.failed \notin {"send", "recv"}
    /\ pc \in {"recv", "receiving"} => outcome.failed = "none"
    /\ \A k \in 1..Len(handled) : handled[k].verdict = "error" => Finished /\ k = Len(handled)

\* C11 witness: the acknowledgment wait failed after a successful send and
\* receive, and the call returned no descriptor.
C11_Witness ==
    /\ Finished
    /\ ops = TransportOrder
    /\ outcome.failed = "ack"
    /\ outcome.family = None

ProbeParse(m) == genlmsg_parse(m, EmptyDict, CTRL_ATTR_MAX, ctrl_policy)
ParsedOk(m) == ProbeParse(m).ret = Return(0)
ParseError(m) == ProbeParse(m).ret.exc = None /\ ProbeParse(m).ret.value # 0
CarriesNeither(m) ==
    /\ ~HasType(m.attrs, CTRL_ATTR_FAMILY_ID)
    /\ ~HasType(m.attrs, CTRL_ATTR_MCAST_GROUPS)
IdCarried(m) ==
    ValueOf(nla_get_u16(m.attrs[ProbeParse(m).tb[CTRL_ATTR_FAMILY_ID]]).value)

\* A step of the receive loop that hands a message to probe_response.
HandlerStep ==
    /\ pc = "receiving"
    /\ cb["NL_CB_VALID"] = "probe_response"
    /\ Len(handled') = Len(handled) + 1
    /\ last'.kind = "data"

\* C12: the response handler returns Stop only for a message that parsed
\* and carried FAMILY_ID, whose value is then the descriptor's id; for a
\* message that fails to parse, and for a parsed message with neither
\* FAMILY_ID nor multicast groups, it returns Skip, the descriptor is
\* unchanged and the receive loop keeps waiting.
C12_HandlerVerdicts ==
    [][HandlerStep =>
          LET m == last'
              v == handled'[Len(handled')].verdict
          IN  /\ v = "NL_STOP" =>
                    /\ ParsedOk(m)
                    /\ HasType(m.attrs, CTRL_ATTR_FAMILY_ID)
                    /\ family'.id = IdCarried(m)
              /\ (ParseError(m) \/ (ParsedOk(m) /\ CarriesNeither(m))) =>
                    /\ v = "NL_SKIP"
                    /\ family' = family
                    /\ pc' = "receiving"]_vars

=============================================================================
